---- MODULE Spec2Model ----
(***************************************************************************)
(* Model of avif2png's converter package (internal/converter/converter.go) *)
(* over an explicit filesystem: collectAVIFFiles, ConvertDirectory and     *)
(* AVIFToPNG.  File names are strings, paths are sequences of names (the   *)
(* path separator is abstracted into the sequence structure), the          *)
(* filesystem maps every existing path to a node.  The filesystem has      *)
(* regular files and directories (no symbolic links); a directory may be   *)
(* unreadable; os.Create and png.Encode may fail for reasons of the        *)
(* environment.  A call is a frame with a program counter: av for          *)
(* AVIFToPNG, cd for ConvertDirectory, run for the command line's Run      *)
(* (internal/cli/cli.go).  The frames also record history the properties   *)
(* refer to (fs0, log), which no action reads.  Spec calls the converter   *)
(* package directly, InPlaceSpec does so with the output directory inside  *)
(* the input directory, CliSpec goes through Run, and ConcSpec interleaves *)
(* two invocations of AVIFToPNG.                                           *)
(***************************************************************************)
EXTENDS Integers, Sequences, FiniteSets, TLC

VARIABLES fs, av, cd, prev, runs, target, faults, run

vars == <<fs, av, cd, prev, runs, target, faults, run>>

(***************************************************************************)
(* Bounds of the model.                                                    *)
(***************************************************************************)
\* number of entries placed in the input tree before the program runs
MaxFiles == 2
\* number of top-level calls (ConvertDirectory or AVIFToPNG) in one behaviour
MaxRuns == 2
\* number of environment failures (os.Create, png.Encode) in one behaviour
MaxFaults == 1

(***************************************************************************)
(* strings / path/filepath helpers                                         *)
(***************************************************************************)
Char(s, i) == SubSeq(s, i, i)

Upper == "ABCDEFGHIJKLMNOPQRSTUVWXYZ"
Lower == "abcdefghijklmnopqrstuvwxyz"
\* the printable ASCII characters used in names, in byte order
Ascii == " .0123456789ABCDEFGHIJKLMNOPQRSTUVWXYZ_abcdefghijklmnopqrstuvwxyz"

CharCode(c) == CHOOSE i \in 1..Len(Ascii) : Char(Ascii, i) = c

LowerChar(c) ==
    IF \E i \in 1..Len(Upper) : Char(Upper, i) = c
    THEN Char(Lower, CHOOSE i \in 1..Len(Upper) : Char(Upper, i) = c)
    ELSE c

RECURSIVE ToLower(_)
ToLower(s) ==
    IF Len(s) = 0 THEN ""
    ELSE LowerChar(Char(s, 1)) \o ToLower(SubSeq(s, 2, Len(s)))

HasPrefix(s, prefix) ==
    Len(s) >= Len(prefix) /\ SubSeq(s, 1, Len(prefix)) = prefix

HasSuffix(s, suffix) ==
    Len(s) >= Len(suffix) /\ SubSeq(s, Len(s) - Len(suffix) + 1, Len(s)) = suffix

TrimSuffix(s, suffix) ==
    IF HasSuffix(s, suffix) THEN SubSeq(s, 1, Len(s) - Len(suffix)) ELSE s

\* filepath.Base: the last element of the path
Base(path) == path[Len(path)]

\* filepath.Ext: the suffix beginning at the final dot of the final element
ExtOfName(name) ==
    LET dots == {i \in 1..Len(name) : Char(name, i) = "."}
    IN  IF dots = {} THEN ""
        ELSE SubSeq(name, CHOOSE i \in dots : \A j \in dots : j <= i, Len(name))

Ext(path) == ExtOfName(Base(path))

\* filepath.Join(dir, name)
Join(dir, name) == Append(dir, name)

\* byte-wise string order, the order of os.ReadDir and filepath.Walk
RECURSIVE StrLess(_, _)
StrLess(a, b) ==
    IF Len(b) = 0 THEN FALSE
    ELSE IF Len(a) = 0 THEN TRUE
    ELSE IF Char(a, 1) = Char(b, 1)
         THEN StrLess(SubSeq(a, 2, Len(a)), SubSeq(b, 2, Len(b)))
         ELSE CharCode(Char(a, 1)) < CharCode(Char(b, 1))

RECURSIVE SortNames(_)
SortNames(S) ==
    IF S = {} THEN <<>>
    ELSE LET m == CHOOSE x \in S : \A y \in S \ {x} : StrLess(x, y)
         IN  <<m>> \o SortNames(S \ {m})

(***************************************************************************)
(* the filesystem                                                          *)
(***************************************************************************)
FileNode(d) == [isDir |-> FALSE, readable |-> TRUE, data |-> d]
DirNode(r) == [isDir |-> TRUE, readable |-> r, data |-> <<"dir", 0>>]

Exists(fsys, p) == p \in DOMAIN fsys
IsDir(fsys, p) == Exists(fsys, p) /\ fsys[p].isDir
IsFile(fsys, p) == Exists(fsys, p) /\ ~fsys[p].isDir

Parent(p) == SubSeq(p, 1, Len(p) - 1)

ChildNames(fsys, dir) ==
    {Base(p) : p \in {q \in DOMAIN fsys : Len(q) = Len(dir) + 1 /\ Parent(q) = dir}}

Put(fsys, p, node) ==
    [q \in DOMAIN fsys \cup {p} |-> IF q = p THEN node ELSE fsys[q]]

\* the existence check left out
Stat_NoCheck(fsys, p) == FALSE

\* os.Stat(p): TRUE iff err == nil
Stat(fsys, p) == Exists(fsys, p)

\* os.ReadDir / readDirNames: the entries of dir sorted by file name
ReadDir(fsys, dir) ==
    IF IsDir(fsys, dir) /\ fsys[dir].readable
    THEN [names |-> SortNames(ChildNames(fsys, dir)), err |-> ""]
    ELSE [names |-> <<>>, err |-> "readdir"]

RECURSIVE MkdirAll(_, _)

\* os.Mkdir: only the last level is created
MkdirAll_OneLevel(fsys, path) ==
    IF Exists(fsys, path)
    THEN [fs |-> fsys, err |-> IF fsys[path].isDir THEN "" ELSE "mkdir"]
    ELSE IF ~IsDir(fsys, Parent(path)) THEN [fs |-> fsys, err |-> "mkdir"]
    ELSE [fs |-> Put(fsys, path, DirNode(TRUE)), err |-> ""]

\* os.MkdirAll(path, 0755)
MkdirAll(fsys, path) ==
    IF Exists(fsys, path)
    THEN [fs |-> fsys, err |-> IF fsys[path].isDir THEN "" ELSE "mkdir"]
    ELSE LET up == MkdirAll(fsys, Parent(path))
         IN  IF up.err # "" THEN up
             ELSE [fs |-> Put(up.fs, path, DirNode(TRUE)), err |-> ""]

\* os.Create(path): O_RDWR|O_CREATE|O_TRUNC; fault is an environment failure
Create(fsys, path, fault) ==
    IF fault \/ ~IsDir(fsys, Parent(path)) \/ IsDir(fsys, path)
    THEN [fs |-> fsys, err |-> "create"]
    ELSE [fs |-> Put(fsys, path, FileNode(<<"empty", 0>>)), err |-> ""]

\* a decoder that accepts any file
Decode_AnyBytes(fsys, path) ==
    IF IsFile(fsys, path)
    THEN [img |-> fsys[path].data[2], err |-> ""]
    ELSE [img |-> 0, err |-> "decode"]

\* image.Decode with the registered formats (avif by blank import, png)
Decode(fsys, path) ==
    IF IsFile(fsys, path) /\ fsys[path].data[1] \in {"avif", "png"}
    THEN [img |-> fsys[path].data[2], err |-> ""]
    ELSE [img |-> 0, err |-> "decode"]

\* png.Encode(outputFile, img); a failed write leaves an incomplete file
Encode(fsys, path, img, fault) ==
    IF fault
    THEN [fs |-> Put(fsys, path, FileNode(<<"partial", img>>)), err |-> "encode"]
    ELSE [fs |-> Put(fsys, path, FileNode(<<"png", img>>)), err |-> ""]

(***************************************************************************)
(* collectAVIFFiles                                                        *)
(***************************************************************************)
\* a callback that skips what it cannot read
WalkFn_ErrorsSkipped(fsys, path, err, files) ==
    IF err # "" THEN [files |-> files, err |-> ""]
    ELSE IF IsDir(fsys, path) THEN [files |-> files, err |-> ""]
    ELSE IF HasPrefix(Base(path), ".") THEN [files |-> files, err |-> ""]
    ELSE IF ToLower(ExtOfName(Base(path))) = ".avif"
         THEN [files |-> Append(files, path), err |-> ""]
         ELSE [files |-> files, err |-> ""]

\* the walk callback of the recursive branch
WalkFn(fsys, path, err, files) ==
    IF err # "" THEN [files |-> files, err |-> err]
    ELSE IF IsDir(fsys, path) THEN [files |-> files, err |-> ""]
    ELSE IF HasPrefix(Base(path), ".") THEN [files |-> files, err |-> ""]
    ELSE IF ToLower(ExtOfName(Base(path))) = ".avif"
         THEN [files |-> Append(files, path), err |-> ""]
         ELSE [files |-> files, err |-> ""]

\* filepath.Walk: pre-order traversal, the entries of a directory in
\* lexical order, aborted by the first error the callback returns
RECURSIVE walk(_, _, _)
RECURSIVE walkNames(_, _, _, _)

\* a walk that does not descend into directories whose name starts with '.'
walk_HiddenDirsSkipped(fsys, path, files) ==
    IF ~IsDir(fsys, path) THEN WalkFn(fsys, path, "", files)
    ELSE IF HasPrefix(Base(path), ".") THEN [files |-> files, err |-> ""]
    ELSE LET rd == ReadDir(fsys, path)
             r1 == WalkFn(fsys, path, rd.err, files)
         IN  IF rd.err # "" \/ r1.err # "" THEN r1
             ELSE walkNames(fsys, path, rd.names, files)

walk(fsys, path, files) ==
    IF ~IsDir(fsys, path) THEN WalkFn(fsys, path, "", files)
    ELSE LET rd == ReadDir(fsys, path)
             r1 == WalkFn(fsys, path, rd.err, files)
         IN  IF rd.err # "" \/ r1.err # "" THEN r1
             ELSE walkNames(fsys, path, rd.names, files)

walkNames(fsys, dir, names, files) ==
    IF names = <<>> THEN [files |-> files, err |-> ""]
    ELSE LET r == walk(fsys, Join(dir, Head(names)), files)
         IN  IF r.err # "" THEN r
             ELSE walkNames(fsys, dir, Tail(names), r.files)

Walk(fsys, root) ==
    IF ~Exists(fsys, root) THEN WalkFn(fsys, root, "lstat", <<>>)
    ELSE walk(fsys, root, <<>>)

RECURSIVE ScanEntries(_, _, _, _)

\* the loop without the test for hidden files
ScanEntries_HiddenKept(fsys, rootDir, names, files) ==
    IF names = <<>> THEN files
    ELSE LET name == Head(names)
             rest == Tail(names)
         IN  IF IsDir(fsys, Join(rootDir, name))
             THEN ScanEntries(fsys, rootDir, rest, files)
             ELSE IF ToLower(ExtOfName(name)) = ".avif"
             THEN ScanEntries(fsys, rootDir, rest, Append(files, Join(rootDir, name)))
             ELSE ScanEntries(fsys, rootDir, rest, files)

\* the loop over the entries of the non-recursive branch
ScanEntries(fsys, rootDir, names, files) ==
    IF names = <<>> THEN files
    ELSE LET name == Head(names)
             rest == Tail(names)
         IN  IF IsDir(fsys, Join(rootDir, name))
             THEN ScanEntries(fsys, rootDir, rest, files)
             ELSE IF HasPrefix(name, ".")
             THEN ScanEntries(fsys, rootDir, rest, files)
             ELSE IF ToLower(ExtOfName(name)) = ".avif"
             THEN ScanEntries(fsys, rootDir, rest, Append(files, Join(rootDir, name)))
             ELSE ScanEntries(fsys, rootDir, rest, files)

collectAVIFFiles(fsys, rootDir, recursive) ==
    IF recursive THEN Walk(fsys, rootDir)
    ELSE LET rd == ReadDir(fsys, rootDir)
         IN  IF rd.err # "" THEN [files |-> <<>>, err |-> "failed to read directory"]
             ELSE [files |-> ScanEntries(fsys, rootDir, rd.names, <<>>), err |-> ""]

(***************************************************************************)
(* program state                                                           *)
(***************************************************************************)
\* the thread of the caller, and a second invoker of AVIFToPNG
Main == "main"
Other == "other"
Procs == {Main, Other}

ErrFileExists == "output file already exists"

\* a comparison that never recognises the sentinel
ErrorsIs_Never(err, sentinel) == FALSE

\* errors.Is(err, target)
ErrorsIs(err, sentinel) == err = sentinel

\* the frame of one AVIFToPNG call; fs0 records the filesystem at the call
AvIdle ==
    [pc |-> "idle", caller |-> "", inputPath |-> <<>>, outputDir |-> <<>>,
     img |-> 0, outputPath |-> <<>>, err |-> "", fs0 |-> <<>>]

\* ConversionResult
EmptyResult ==
    [TotalFiles |-> 0, Successful |-> 0, Skipped |-> 0, Failed |-> 0, Errors |-> <<>>]

\* the frame of one ConvertDirectory call; nilResult says that the returned
\* *ConversionResult is nil, fs0 records the filesystem at the call and log
\* the (inputPath, err) of every AVIFToPNG call that returned to the loop
CdIdle ==
    [pc |-> "idle", inputDir |-> <<>>, outputDir |-> <<>>, recursive |-> FALSE,
     avifFiles |-> <<>>, i |-> 0, result |-> EmptyResult, nilResult |-> TRUE,
     err |-> "", fs0 |-> <<>>, log |-> <<>>]

\* the frame of one Run call of the command line: the Config it was given,
\* what ValidateInputPath answered and the error it returns
RunIdle ==
    [pc |-> "idle",
     config |-> [InputPath |-> <<>>, OutputDir |-> <<>>, Recursive |-> FALSE],
     isDir |-> FALSE, err |-> "", fs0 |-> <<>>]

(***************************************************************************)
(* the initial filesystems                                                 *)
(***************************************************************************)
InDir == <<"in">>
OutDir == <<"out">>

\* the entries the input tree is drawn from
SrcPool ==
    << <<"in", "a.avif">>,
       <<"in", "b c.d.AVIF">>,
       <<"in", ".h.avif">>,
       <<"in", "n.txt">>,
       <<"in", "sub", "a.avif">>,
       <<"in", "A", "a.avif">>,
       <<"in", ".d", "c.avif">>,
       <<"in", "x.avif">> >>

\* what an entry can be: a decodable image, undecodable bytes, a directory
SlotKinds(k) ==
    IF k = Len(SrcPool) THEN {"dir"}
    ELSE IF k = 4 THEN {"junk"}
    ELSE IF k \in {1, 2} THEN {"avif", "junk"}
    ELSE {"avif"}

SlotNode(k, kind) ==
    IF kind = "dir" THEN DirNode(TRUE)
    ELSE IF kind = "avif" THEN FileNode(<<"avif", k>>)
    ELSE FileNode(<<"junk", 0>>)

Ancestors(p) == {SubSeq(p, 1, n) : n \in 0..(Len(p) - 1)}

\* the output side before the program runs: nothing at OutDir, a directory
\* that holds a.png, or a regular file
OutStates == {"none", "occupied", "file"}

OutNodes(out) ==
    IF out = "none" THEN {}
    ELSE IF out = "occupied" THEN {OutDir, Join(OutDir, "a.png")}
    ELSE {OutDir}

\* the input/output pairs the calls of one behaviour are made against,
\* each with the states of the output side it is run on
Targets ==
    {[in |-> InDir, out |-> OutDir],
     [in |-> InDir, out |-> <<"out", "deep">>],
     [in |-> <<"nowhere">>, out |-> OutDir]}

Setups ==
    {[target |-> [in |-> InDir, out |-> OutDir], out |-> o] : o \in OutStates}
    \cup {[target |-> [in |-> InDir, out |-> <<"out", "deep">>], out |-> o] :
            o \in {"none", "file"}}
    \cup {[target |-> [in |-> <<"nowhere">>, out |-> OutDir], out |-> "none"]}

InitFs(chosen, kind, out, unreadable) ==
    LET dirs == {<<>>, InDir} \cup UNION {Ancestors(SrcPool[k]) : k \in chosen}
        paths == dirs \cup {SrcPool[k] : k \in chosen} \cup OutNodes(out)
    IN  [p \in paths |->
           IF p \in dirs THEN DirNode(p # unreadable)
           ELSE IF \E k \in chosen : SrcPool[k] = p
                THEN SlotNode(CHOOSE k \in chosen : SrcPool[k] = p,
                              kind[CHOOSE k \in chosen : SrcPool[k] = p])
           ELSE IF p = OutDir
                THEN (IF out = "file" THEN FileNode(<<"junk", 0>>) ELSE DirNode(TRUE))
           ELSE FileNode(<<"png", 0>>)]

Init ==
    /\ \E chosen \in SUBSET (1..Len(SrcPool)) :
         /\ Cardinality(chosen) <= MaxFiles
         /\ \E kind \in [chosen -> {"avif", "junk", "dir"}] :
              /\ \A k \in chosen : kind[k] \in SlotKinds(k)
              /\ \/ \E s \in Setups :
                      /\ fs = InitFs(chosen, kind, s.out, <<"none">>)
                      /\ target = s.target
                 \/ \E unreadable \in {InDir} \cup
                        UNION {Ancestors(SrcPool[k]) \ {<<>>} : k \in chosen} :
                      /\ fs = InitFs(chosen, kind, "none", unreadable)
                      /\ target = [in |-> InDir, out |-> OutDir]
    /\ av = [p \in Procs |-> AvIdle]
    /\ cd = CdIdle
    /\ prev = CdIdle
    /\ runs = 0
    /\ faults = 0
    /\ run = RunIdle

\* the pairs whose output directory is the input directory or lies inside
\* it: the input directory itself, a subdirectory that may hold sources, a
\* directory named like a source
InPlaceTargets ==
    {[in |-> InDir, out |-> InDir],
     [in |-> InDir, out |-> <<"in", "sub">>],
     [in |-> InDir, out |-> <<"in", "x.avif">>]}

\* the initial states of the runs that convert in place
InPlaceInit ==
    /\ \E chosen \in SUBSET (1..Len(SrcPool)) :
         /\ Cardinality(chosen) <= MaxFiles
         /\ \E kind \in [chosen -> {"avif", "junk", "dir"}] :
              /\ \A k \in chosen : kind[k] \in SlotKinds(k)
              /\ fs = InitFs(chosen, kind, "none", <<"none">>)
    /\ target \in InPlaceTargets
    /\ av = [p \in Procs |-> AvIdle]
    /\ cd = CdIdle
    /\ prev = CdIdle
    /\ runs = 0
    /\ faults = 0
    /\ run = RunIdle

(***************************************************************************)
(* the arguments the callers pass                                          *)
(***************************************************************************)
ApiInputs == {Join(target.in, "a.avif")}

Resting == cd.pc \in {"idle", "done"} /\ av[Main].pc \in {"idle", "ret"}

(***************************************************************************)
(* AVIFToPNG, one action per step that reads or writes the filesystem      *)
(***************************************************************************)
AvReturn(f, e) == [f EXCEPT !.pc = "ret", !.err = e]

\* entry of a direct call (the CLI's single-file path, the tests)
AV_Call(inputPath, outputDir) ==
    /\ Resting
    /\ runs < MaxRuns
    /\ av' = [av EXCEPT ![Main] =
                [AvIdle EXCEPT !.pc = "read", !.caller = "api",
                               !.inputPath = inputPath, !.outputDir = outputDir,
                               !.fs0 = fs]]
    /\ cd' = CdIdle
    /\ prev' = IF cd.pc = "done" THEN cd ELSE prev
    /\ runs' = runs + 1
    /\ UNCHANGED <<fs, target, faults>>

\* the output directory created before the source is opened
AV_Read_DirectoryFirst(p) ==
    /\ av[p].pc = "read"
    /\ LET f == av[p]
           d == Decode(fs, f.inputPath)
       IN  av' = [av EXCEPT ![p] =
                    IF ~Exists(fs, f.inputPath)
                    THEN AvReturn(f, "failed to open input file")
                    ELSE IF d.err # ""
                    THEN AvReturn(f, "failed to decode AVIF image")
                    ELSE [f EXCEPT !.pc = "mkdir", !.img = d.img]]
    /\ fs' = MkdirAll(fs, av[p].outputDir).fs
    /\ UNCHANGED <<cd, prev, runs, target, faults, run>>

\* the destination looked up before the source is opened and decoded
AV_Read_ExistenceFirst(p) ==
    /\ av[p].pc = "read"
    /\ LET f == av[p]
           d == Decode(fs, f.inputPath)
           outputPath == Join(f.outputDir,
                              TrimSuffix(Base(f.inputPath), Ext(f.inputPath)) \o ".png")
       IN  av' = [av EXCEPT ![p] =
                    IF Stat(fs, outputPath)
                    THEN AvReturn([f EXCEPT !.outputPath = outputPath], ErrFileExists)
                    ELSE IF ~Exists(fs, f.inputPath)
                    THEN AvReturn(f, "failed to open input file")
                    ELSE IF d.err # ""
                    THEN AvReturn(f, "failed to decode AVIF image")
                    ELSE [f EXCEPT !.pc = "mkdir", !.img = d.img]]
    /\ UNCHANGED <<fs, cd, prev, runs, target, faults, run>>

\* os.Open and image.Decode
AV_Read(p) ==
    /\ av[p].pc = "read"
    /\ LET f == av[p]
           d == Decode(fs, f.inputPath)
       IN  av' = [av EXCEPT ![p] =
                    IF ~Exists(fs, f.inputPath)
                    THEN AvReturn(f, "failed to open input file")
                    ELSE IF d.err # ""
                    THEN AvReturn(f, "failed to decode AVIF image")
                    ELSE [f EXCEPT !.pc = "mkdir", !.img = d.img]]
    /\ UNCHANGED <<fs, cd, prev, runs, target, faults, run>>

\* os.MkdirAll(outputDir, 0755)
AV_MkdirAll(p) ==
    /\ av[p].pc = "mkdir"
    /\ LET f == av[p]
           m == MkdirAll(fs, f.outputDir)
       IN  /\ fs' = m.fs
           /\ av' = [av EXCEPT ![p] =
                       IF m.err # ""
                       THEN AvReturn(f, "failed to create output directory")
                       ELSE [f EXCEPT !.pc = "stat"]]
    /\ UNCHANGED <<cd, prev, runs, target, faults, run>>

\* the base name obtained by removing the literal suffix ".avif" only
OutputPath_LiteralSuffix(inputPath, outputDir) ==
    LET baseName == TrimSuffix(Base(inputPath), ".avif")
    IN  Join(outputDir, baseName \o ".png")

\* the output named like the source, its extension kept
OutputPath_ExtensionKept(inputPath, outputDir) ==
    Join(outputDir, Base(inputPath))

\* the output path of inputPath in outputDir
OutputPath(inputPath, outputDir) ==
    LET baseName == TrimSuffix(Base(inputPath), Ext(inputPath))
    IN  Join(outputDir, baseName \o ".png")

\* the result of the existence check ignored
AV_Stat_ResultIgnored(p) ==
    /\ av[p].pc = "stat"
    /\ LET f == av[p]
           outputPath == OutputPath(f.inputPath, f.outputDir)
       IN  av' = [av EXCEPT ![p] = [f EXCEPT !.pc = "create", !.outputPath = outputPath]]
    /\ UNCHANGED <<fs, cd, prev, runs, target, faults, run>>

\* the overwrite protection: os.Stat(outputPath)
AV_Stat(p) ==
    /\ av[p].pc = "stat"
    /\ LET f == av[p]
           outputPath == OutputPath(f.inputPath, f.outputDir)
       IN  av' = [av EXCEPT ![p] =
                    IF Stat(fs, outputPath)
                    THEN AvReturn([f EXCEPT !.outputPath = outputPath], ErrFileExists)
                    ELSE [f EXCEPT !.pc = "create", !.outputPath = outputPath]]
    /\ UNCHANGED <<fs, cd, prev, runs, target, faults, run>>

\* os.Create(outputPath)
AV_Create(p) ==
    /\ av[p].pc = "create"
    /\ \E fault \in {FALSE} \cup {faults < MaxFaults} :
         LET f == av[p]
             c == Create(fs, f.outputPath, fault)
         IN  /\ faults' = IF fault THEN faults + 1 ELSE faults
             /\ fs' = c.fs
             /\ av' = [av EXCEPT ![p] =
                         IF c.err # ""
                         THEN AvReturn(f, "failed to create output file")
                         ELSE [f EXCEPT !.pc = "encode"]]
    /\ UNCHANGED <<cd, prev, runs, target, run>>

\* png.Encode(outputFile, img) and the return
AV_Encode(p) ==
    /\ av[p].pc = "encode"
    /\ \E fault \in {FALSE} \cup {faults < MaxFaults} :
         LET f == av[p]
             e == Encode(fs, f.outputPath, f.img, fault)
         IN  /\ faults' = IF fault THEN faults + 1 ELSE faults
             /\ fs' = e.fs
             /\ av' = [av EXCEPT ![p] =
                         IF e.err # ""
                         THEN AvReturn(f, "failed to encode PNG")
                         ELSE AvReturn(f, "")]
    /\ UNCHANGED <<cd, prev, runs, target, run>>

(***************************************************************************)
(* ConvertDirectory                                                        *)
(***************************************************************************)
\* the output directory created before the scan
CD_Begin_MkdirFirst(inputDir, outputDir, recursive) ==
    /\ Resting
    /\ runs < MaxRuns
    /\ LET c == collectAVIFFiles(fs, inputDir, recursive)
           f == [CdIdle EXCEPT !.inputDir = inputDir, !.outputDir = outputDir,
                               !.recursive = recursive, !.avifFiles = c.files,
                               !.fs0 = fs]
       IN  cd' = IF c.err # ""
                 THEN [f EXCEPT !.pc = "done", !.err = "failed to scan directory"]
                 ELSE IF Len(c.files) = 0
                 THEN [f EXCEPT !.pc = "done", !.nilResult = FALSE]
                 ELSE [f EXCEPT !.pc = "loop", !.nilResult = FALSE, !.i = 1,
                                !.result.TotalFiles = Len(c.files)]
    /\ prev' = IF cd.pc = "done" THEN cd ELSE prev
    /\ av' = [av EXCEPT ![Main] = AvIdle]
    /\ runs' = runs + 1
    /\ fs' = MkdirAll(fs, outputDir).fs
    /\ UNCHANGED <<target, faults>>

\* the call, the collection and the early return
CD_Begin(inputDir, outputDir, recursive) ==
    /\ Resting
    /\ runs < MaxRuns
    /\ LET c == collectAVIFFiles(fs, inputDir, recursive)
           f == [CdIdle EXCEPT !.inputDir = inputDir, !.outputDir = outputDir,
                               !.recursive = recursive, !.avifFiles = c.files,
                               !.fs0 = fs]
       IN  cd' = IF c.err # ""
                 THEN [f EXCEPT !.pc = "done", !.err = "failed to scan directory"]
                 ELSE IF Len(c.files) = 0
                 THEN [f EXCEPT !.pc = "done", !.nilResult = FALSE]
                 ELSE [f EXCEPT !.pc = "loop", !.nilResult = FALSE, !.i = 1,
                                !.result.TotalFiles = Len(c.files)]
    /\ prev' = IF cd.pc = "done" THEN cd ELSE prev
    /\ av' = [av EXCEPT ![Main] = AvIdle]
    /\ runs' = runs + 1
    /\ UNCHANGED <<fs, target, faults>>

\* the loop taking the files from the end of the list
CD_Convert_LastFirst ==
    /\ cd.pc = "loop"
    /\ cd.i <= Len(cd.avifFiles)
    /\ av[Main].pc = "idle"
    /\ av' = [av EXCEPT ![Main] =
                [AvIdle EXCEPT !.pc = "read", !.caller = "batch",
                               !.inputPath = cd.avifFiles[Len(cd.avifFiles) - cd.i + 1],
                               !.outputDir = cd.outputDir, !.fs0 = fs]]
    /\ cd' = [cd EXCEPT !.pc = "wait"]
    /\ UNCHANGED <<fs, prev, runs, target, faults, run>>

\* the call of AVIFToPNG for the next file of the loop
CD_Convert ==
    /\ cd.pc = "loop"
    /\ cd.i <= Len(cd.avifFiles)
    /\ av[Main].pc = "idle"
    /\ av' = [av EXCEPT ![Main] =
                [AvIdle EXCEPT !.pc = "read", !.caller = "batch",
                               !.inputPath = cd.avifFiles[cd.i],
                               !.outputDir = cd.outputDir, !.fs0 = fs]]
    /\ cd' = [cd EXCEPT !.pc = "wait"]
    /\ UNCHANGED <<fs, prev, runs, target, faults, run>>

\* a skip left uncounted
Classify_SkipNotCounted(result, filePath, err) ==
    IF err # ""
    THEN IF ErrorsIs(err, ErrFileExists)
         THEN result
         ELSE [result EXCEPT !.Failed = @ + 1,
                             !.Errors = Append(@, [FilePath |-> filePath, Error |-> err])]
    ELSE [result EXCEPT !.Successful = @ + 1]

\* a skip recorded in the error list as well
Classify_SkipListed(result, filePath, err) ==
    IF err # ""
    THEN IF ErrorsIs(err, ErrFileExists)
         THEN [result EXCEPT !.Skipped = @ + 1,
                             !.Errors = Append(@, [FilePath |-> filePath, Error |-> err])]
         ELSE [result EXCEPT !.Failed = @ + 1,
                             !.Errors = Append(@, [FilePath |-> filePath, Error |-> err])]
    ELSE [result EXCEPT !.Successful = @ + 1]

\* the classification of the error AVIFToPNG returned
Classify(result, filePath, err) ==
    IF err # ""
    THEN IF ErrorsIs(err, ErrFileExists)
         THEN [result EXCEPT !.Skipped = @ + 1]
         ELSE [result EXCEPT !.Failed = @ + 1,
                             !.Errors = Append(@, [FilePath |-> filePath, Error |-> err])]
    ELSE [result EXCEPT !.Successful = @ + 1]

\* a failure that ends the loop
CD_Classify_AbortOnFailure ==
    /\ cd.pc = "wait"
    /\ av[Main].pc = "ret"
    /\ av[Main].caller = "batch"
    /\ cd' = [cd EXCEPT !.pc = IF av[Main].err \notin {"", ErrFileExists}
                               THEN "done" ELSE "loop",
                        !.i = IF av[Main].err \notin {"", ErrFileExists}
                              THEN @ ELSE @ + 1,
                        !.result = Classify(cd.result, cd.avifFiles[cd.i], av[Main].err),
                        !.log = Append(@, [inputPath |-> av[Main].inputPath,
                                           err |-> av[Main].err])]
    /\ av' = [av EXCEPT ![Main] = AvIdle]
    /\ UNCHANGED <<fs, prev, runs, target, faults, run>>

CD_Classify ==
    /\ cd.pc = "wait"
    /\ av[Main].pc = "ret"
    /\ av[Main].caller = "batch"
    /\ cd' = [cd EXCEPT !.pc = "loop", !.i = @ + 1,
                        !.result = Classify(cd.result, cd.avifFiles[cd.i], av[Main].err),
                        !.log = Append(@, [inputPath |-> av[Main].inputPath,
                                           err |-> av[Main].err])]
    /\ av' = [av EXCEPT ![Main] = AvIdle]
    /\ UNCHANGED <<fs, prev, runs, target, faults, run>>

\* the end of the loop
CD_Return ==
    /\ cd.pc = "loop"
    /\ cd.i > Len(cd.avifFiles)
    /\ cd' = [cd EXCEPT !.pc = "done"]
    /\ UNCHANGED <<fs, av, prev, runs, target, faults, run>>

(***************************************************************************)
(* the sequential program                                                  *)
(***************************************************************************)
(***************************************************************************)
(* the command line: Run (internal/cli/cli.go)                             *)
(***************************************************************************)
\* the extension compared without folding the letter case
ValidateInputPath_CaseSensitive(fsys, path) ==
    IF ~Exists(fsys, path)
    THEN [isDir |-> FALSE, err |-> "input path does not exist"]
    ELSE IF IsDir(fsys, path)
    THEN [isDir |-> TRUE, err |-> ""]
    ELSE IF Ext(path) # ".avif"
    THEN [isDir |-> FALSE, err |-> "input file must have .avif extension"]
    ELSE [isDir |-> FALSE, err |-> ""]

\* ValidateInputPath(path), the pair (isDir, err)
ValidateInputPath(fsys, path) ==
    IF ~Exists(fsys, path)
    THEN [isDir |-> FALSE, err |-> "input path does not exist"]
    ELSE IF IsDir(fsys, path)
    THEN [isDir |-> TRUE, err |-> ""]
    ELSE IF ToLower(Ext(path)) # ".avif"
    THEN [isDir |-> FALSE, err |-> "input file must have .avif extension"]
    ELSE [isDir |-> FALSE, err |-> ""]

\* skipped files reported like failed ones
runDirectoryConversion_SkipsReported(c) ==
    IF c.err # "" THEN c.err
    ELSE IF c.result.Failed + c.result.Skipped > 0 THEN "completed with error(s)"
    ELSE ""

\* the error runDirectoryConversion returns for the returned call c of
\* ConvertDirectory
runDirectoryConversion(c) ==
    IF c.err # "" THEN c.err
    ELSE IF Len(c.result.Errors) > 0 THEN "completed with error(s)"
    ELSE ""

\* the error runSingleFileConversion returns for the returned call f of
\* AVIFToPNG
runSingleFileConversion(f) == f.err

\* the paths and flags the command line is given
CliInputs ==
    {target.in, Join(target.in, "a.avif"), Join(target.in, "b c.d.AVIF"),
     Join(target.in, "n.txt"), Join(target.in, "x.avif")}

Configs ==
    [InputPath : CliInputs, OutputDir : {target.out}, Recursive : BOOLEAN]

\* Run up to the call of the conversion: ValidateInputPath and the dispatch;
\* main calls Run once
RUN_Call(config) ==
    /\ run.pc = "idle"
    /\ LET v == ValidateInputPath(fs, config.InputPath)
           r == [RunIdle EXCEPT !.config = config, !.isDir = v.isDir, !.fs0 = fs]
       IN  IF v.err # ""
           THEN /\ Resting
                /\ runs < MaxRuns
                /\ run' = [r EXCEPT !.pc = "done", !.err = v.err]
                /\ cd' = CdIdle
                /\ av' = [av EXCEPT ![Main] = AvIdle]
                /\ prev' = IF cd.pc = "done" THEN cd ELSE prev
                /\ runs' = runs + 1
                /\ UNCHANGED <<fs, target, faults>>
           ELSE IF v.isDir
           THEN /\ CD_Begin(config.InputPath, config.OutputDir, config.Recursive)
                /\ run' = [r EXCEPT !.pc = "dir"]
           ELSE /\ AV_Call(config.InputPath, config.OutputDir)
                /\ run' = [r EXCEPT !.pc = "file"]

\* the return of runDirectoryConversion
RUN_ReturnDir ==
    /\ run.pc = "dir"
    /\ cd.pc = "done"
    /\ run' = [run EXCEPT !.pc = "done", !.err = runDirectoryConversion(cd)]
    /\ UNCHANGED <<fs, av, cd, prev, runs, target, faults>>

\* the return of runSingleFileConversion
RUN_ReturnFile ==
    /\ run.pc = "file"
    /\ av[Main].pc = "ret"
    /\ run' = [run EXCEPT !.pc = "done", !.err = runSingleFileConversion(av[Main])]
    /\ UNCHANGED <<fs, av, cd, prev, runs, target, faults>>

(***************************************************************************)
(* the specifications                                                      *)
(***************************************************************************)
Step ==
    \/ AV_Read(Main)
    \/ AV_MkdirAll(Main)
    \/ AV_Stat(Main)
    \/ AV_Create(Main)
    \/ AV_Encode(Main)
    \/ CD_Convert
    \/ CD_Classify
    \/ CD_Return

Next ==
    \/ \E recursive \in BOOLEAN :
         CD_Begin(target.in, target.out, recursive) /\ UNCHANGED run
    \/ \E inputPath \in ApiInputs :
         AV_Call(inputPath, target.out) /\ UNCHANGED run
    \/ Step

Spec == Init /\ [][Next]_vars

\* a started call runs to completion
FairSpec == Spec /\ WF_vars(Step)

\* the program driven through the command line
CliNext ==
    \/ \E config \in Configs : RUN_Call(config)
    \/ RUN_ReturnDir
    \/ RUN_ReturnFile
    \/ Step

CliSpec == Init /\ [][CliNext]_vars

\* the inputs of two invocations that have the same destination
ConcInputs == {Join(target.in, "a.avif"), Join(Join(target.in, "sub"), "a.avif")}

\* entry of an AVIFToPNG call made by invoker p while the other invoker may
\* be inside its own call; every invoker calls once
AV_CallBy(p, inputPath, outputDir) ==
    /\ av[p].pc = "idle"
    /\ cd.pc = "idle"
    /\ run.pc = "idle"
    /\ av' = [av EXCEPT ![p] =
                [AvIdle EXCEPT !.pc = "read", !.caller = "api",
                               !.inputPath = inputPath, !.outputDir = outputDir,
                               !.fs0 = fs]]
    /\ UNCHANGED <<fs, cd, prev, runs, target, faults, run>>

\* two invokers of AVIFToPNG whose steps interleave
ConcNext ==
    \E p \in Procs :
        \/ \E inputPath \in ConcInputs : AV_CallBy(p, inputPath, target.out)
        \/ AV_Read(p)
        \/ AV_MkdirAll(p)
        \/ AV_Stat(p)
        \/ AV_Create(p)
        \/ AV_Encode(p)

ConcSpec == Init /\ [][ConcNext]_vars

\* the converter package called with an output directory inside the input
InPlaceSpec == InPlaceInit /\ [][Next]_vars

(***************************************************************************)
(* vocabulary of the properties                                            *)
(***************************************************************************)
\* the ConvertDirectory call has collected its files and owns a result
InBatch == cd.pc \in {"loop", "wait", "done"} /\ ~cd.nilResult

\* ConvertDirectory has returned a result
Returned == cd.pc = "done" /\ ~cd.nilResult

\* every file of the snapshot before is still there, with the same content
Untouched(before, now) ==
    \A p \in DOMAIN before :
        ~before[p].isDir => p \in DOMAIN now /\ now[p] = before[p]

\* a source that image.Decode accepts
ValidSource(fsys, p) ==
    /\ p \in DOMAIN fsys
    /\ ~fsys[p].isDir
    /\ fsys[p].data[1] \in {"avif", "png"}

\* outputDir/<base>.png, the base being the source's file name without its
\* last extension
DestinationOf(inputPath, outputDir) ==
    LET name == inputPath[Len(inputPath)]
        cut == CHOOSE n \in 0..Len(name) :
                 /\ n = 0 \/ Char(name, n) = "."
                 /\ \A m \in (n + 1)..Len(name) : Char(name, m) # "."
    IN  outputDir \o << (IF cut = 0 THEN name ELSE SubSeq(name, 1, cut - 1)) \o ".png" >>

OutputSideErrors ==
    {"failed to create output directory", "failed to create output file",
     "failed to encode PNG"}

(***************************************************************************)
(* C1: overwrite protection.  A call of AVIFToPNG whose source decodes and *)
(* whose destination outputDir/<base>.png is occupied at the call returns  *)
(* ErrFileExists; the destination is absent whenever the call is about to  *)
(* open it for writing; and every file that existed when the current       *)
(* AVIFToPNG or ConvertDirectory call began is still there, unmodified.    *)
(***************************************************************************)
C1_OverwriteProtection ==
    LET f == av[Main]
    IN  /\ f.pc = "ret" /\ ValidSource(f.fs0, f.inputPath)
              /\ DestinationOf(f.inputPath, f.outputDir) \in DOMAIN f.fs0
           => f.err = ErrFileExists
        /\ f.pc = "create" => f.outputPath \notin DOMAIN fs
        /\ f.pc # "idle" => Untouched(f.fs0, fs)
        /\ cd.pc # "idle" => Untouched(cd.fs0, fs)

\* a batch call returned ErrFileExists for an occupied destination, which
\* still holds what it held
C1_Witness ==
    LET f == av[Main]
        dest == DestinationOf(f.inputPath, f.outputDir)
    IN  /\ f.pc = "ret"
        /\ f.caller = "batch"
        /\ f.err = ErrFileExists
        /\ dest \in DOMAIN cd.fs0
        /\ fs[dest] = cd.fs0[dest]

(***************************************************************************)
(* C2: aggregation.  TotalFiles is the number of collected files and does  *)
(* not change; in the loop Successful + Skipped + Failed is the number of  *)
(* files processed so far; each processed file raises exactly one counter  *)
(* by exactly 1 and no counter decreases; a returned result has            *)
(* Successful + Skipped + Failed = TotalFiles.                             *)
(***************************************************************************)
Processed == cd.result.Successful + cd.result.Skipped + cd.result.Failed

C2_CountsState ==
    /\ InBatch => cd.result.TotalFiles = Len(cd.avifFiles)
    /\ cd.pc \in {"loop", "wait"} => Processed = cd.i - 1
    /\ Returned => Processed = cd.result.TotalFiles

C2_CountsStep ==
    LET r == cd.result
        q == cd'.result
    IN  cd.pc \in {"loop", "wait"} =>
          /\ q.TotalFiles = r.TotalFiles
          /\ q.Successful >= r.Successful
          /\ q.Skipped >= r.Skipped
          /\ q.Failed >= r.Failed
          /\ cd.pc = "wait" /\ cd'.pc # "wait" =>
               \/ q.Successful = r.Successful + 1 /\ q.Skipped = r.Skipped
                    /\ q.Failed = r.Failed
               \/ q.Successful = r.Successful /\ q.Skipped = r.Skipped + 1
                    /\ q.Failed = r.Failed
               \/ q.Successful = r.Successful /\ q.Skipped = r.Skipped
                    /\ q.Failed = r.Failed + 1

C2_Aggregation == [](C2_CountsState) /\ [][C2_CountsStep]_vars

\* a returned batch of two files with a skip among its outcomes
C2_Witness ==
    /\ Returned
    /\ cd.result.TotalFiles = 2
    /\ cd.result.Skipped = 1
    /\ cd.result.Successful + cd.result.Failed = 1

(***************************************************************************)
(* C3: error isolation.  When collection succeeds, the files handed to     *)
(* AVIFToPNG are the collected files, each exactly once, and each gets one *)
(* outcome whatever the outcomes before it; the loop finishes; and         *)
(* ConvertDirectory returns a nil error together with the result.          *)
(***************************************************************************)
C3_EveryFileOnce ==
    /\ InBatch => /\ Len(cd.log) <= Len(cd.avifFiles)
                  /\ \A k \in 1..Len(cd.log) : cd.log[k].inputPath = cd.avifFiles[k]
                  /\ cd.err = ""
    /\ Returned => /\ Len(cd.log) = Len(cd.avifFiles)
                   /\ Processed = Len(cd.avifFiles)
    /\ cd.pc = "done" /\ cd.err = "" => ~cd.nilResult

C3_ErrorIsolation ==
    /\ [](C3_EveryFileOnce)
    /\ (cd.pc \in {"loop", "wait"}) ~> (cd.pc = "done")

\* the first file failed and a later one was converted
C3_Witness ==
    /\ Returned
    /\ Len(cd.log) = 2
    /\ cd.log[1].err \notin {"", ErrFileExists}
    /\ cd.log[2].err = ""
    /\ cd.result.Successful = 1

(***************************************************************************)
(* C4: the error list.  Errors holds one (path, error) entry per call that *)
(* returned an error other than ErrFileExists, in processing order, with   *)
(* the path of that file; len(Errors) = Failed at all times; a converted   *)
(* or skipped file is not in Errors.                                       *)
(***************************************************************************)
RECURSIVE FailedEntries(_)
FailedEntries(log) ==
    IF log = <<>> THEN <<>>
    ELSE LET rest == FailedEntries(SubSeq(log, 1, Len(log) - 1))
             last == log[Len(log)]
         IN  IF last.err \in {"", ErrFileExists} THEN rest
             ELSE Append(rest, [FilePath |-> last.inputPath, Error |-> last.err])

C4_ErrorList ==
    InBatch =>
      /\ Len(cd.result.Errors) = cd.result.Failed
      /\ cd.result.Errors = FailedEntries(cd.log)
      /\ \A k \in 1..Len(cd.log) :
           cd.log[k].err \in {"", ErrFileExists} =>
             \A e \in 1..Len(cd.result.Errors) :
                cd.result.Errors[e].FilePath # cd.log[k].inputPath

\* a batch with one skipped and one failed file, whose list holds the latter
C4_Witness ==
    /\ Returned
    /\ cd.result.Skipped = 1
    /\ cd.result.Failed = 1
    /\ Len(cd.result.Errors) = 1
    /\ \E k \in 1..2 : cd.log[k].err = ErrFileExists
                        /\ cd.result.Errors[1].FilePath # cd.log[k].inputPath

(***************************************************************************)
(* C5: partial failure isolation.  A batch of N decodable and M            *)
(* undecodable sources with pairwise distinct base names, none of whose    *)
(* outputs the destination holds, returns TotalFiles = N+M, Successful =   *)
(* N, Failed = M, Skipped = 0 and M entries in Errors.                     *)
(***************************************************************************)
Files == {cd.avifFiles[k] : k \in 1..Len(cd.avifFiles)}
NValid == Cardinality({k \in 1..Len(cd.avifFiles) : ValidSource(cd.fs0, cd.avifFiles[k])})
MInvalid == Len(cd.avifFiles) - NValid

DistinctFreshOutputs ==
    /\ \A j, k \in 1..Len(cd.avifFiles) :
         j # k => DestinationOf(cd.avifFiles[j], cd.outputDir)
                    # DestinationOf(cd.avifFiles[k], cd.outputDir)
    /\ \A k \in 1..Len(cd.avifFiles) :
         DestinationOf(cd.avifFiles[k], cd.outputDir) \notin DOMAIN cd.fs0

NoOutputSideError ==
    \A k \in 1..Len(cd.log) : cd.log[k].err \notin OutputSideErrors

PartialFailureCounts ==
    /\ cd.result.TotalFiles = NValid + MInvalid
    /\ cd.result.Successful = NValid
    /\ cd.result.Failed = MInvalid
    /\ cd.result.Skipped = 0
    /\ Len(cd.result.Errors) = MInvalid

SecondRun ==
    /\ Returned
    /\ prev.pc = "done"
    /\ ~prev.nilResult
    /\ prev.inputDir = cd.inputDir
    /\ prev.outputDir = cd.outputDir
    /\ prev.recursive = cd.recursive
    /\ \A p \in DOMAIN prev.fs0 : p \in DOMAIN cd.fs0

AllSkipped ==
    /\ cd.result.Successful = 0
    /\ cd.result.Skipped = cd.result.TotalFiles

Colliders(dest) ==
    {k \in 1..Len(cd.avifFiles) :
        /\ DestinationOf(cd.avifFiles[k], cd.outputDir) = dest
        /\ ValidSource(cd.fs0, cd.avifFiles[k])}

Collisions ==
    {dest \in {DestinationOf(f, cd.outputDir) : f \in Files} :
        Cardinality(Colliders(dest)) >= 2 /\ dest \notin DOMAIN cd.fs0}

First(S) == CHOOSE k \in S : \A j \in S : k <= j

FirstWins(dest) ==
    /\ cd.log[First(Colliders(dest))].err = ""
    /\ \A k \in Colliders(dest) \ {First(Colliders(dest))} :
         cd.log[k].err = ErrFileExists
    /\ Len(cd.avifFiles) = 2 => cd.result.Successful = 1 /\ cd.result.Skipped = 1

AtMostOneWriter(dest) ==
    /\ Cardinality({k \in Colliders(dest) : cd.log[k].err = ""}) <= 1
    /\ \A k \in Colliders(dest) :
         cd.log[k].err = "" =>
           /\ dest \in DOMAIN fs
           /\ fs[dest].data = <<"png", cd.fs0[cd.avifFiles[k]].data[2]>>

C8_EmptyBatch ==
    cd.pc # "idle" /\ cd.err = "" /\ cd.avifFiles = <<>> =>
      /\ cd.pc = "done"
      /\ ~cd.nilResult
      /\ cd.result = EmptyResult
      /\ cd.log = <<>>
      /\ av[Main].pc = "idle"
      /\ fs = cd.fs0

\* an empty batch over a directory that has entries, the destination
\* directory still missing
C8_Witness ==
    /\ cd.pc = "done"
    /\ cd.err = ""
    /\ cd.avifFiles = <<>>
    /\ ChildNames(cd.fs0, cd.inputDir) # {}
    /\ cd.outputDir \notin DOMAIN fs

(***************************************************************************)
(* C9: structural errors.  If the input root does not exist or a directory *)
(* read fails during collection, ConvertDirectory returns an error and no  *)
(* result, converts no file of a partially collected set and writes        *)
(* nothing.                                                                *)
(***************************************************************************)
IsUnder(root, p) == Len(p) >= Len(root) /\ SubSeq(p, 1, Len(root)) = root

CollectionFails(fsys, root, recursive) ==
    \/ root \notin DOMAIN fsys
    \/ ~fsys[root].isDir /\ ~recursive
    \/ fsys[root].isDir /\ ~fsys[root].readable
    \/ /\ recursive
       /\ \E d \in DOMAIN fsys : IsUnder(root, d) /\ fsys[d].isDir /\ ~fsys[d].readable

C9_StructuralError ==
    cd.pc # "idle" /\ CollectionFails(cd.fs0, cd.inputDir, cd.recursive) =>
      /\ cd.pc = "done"
      /\ cd.err # ""
      /\ cd.nilResult
      /\ cd.log = <<>>
      /\ av[Main].pc = "idle"
      /\ fs = cd.fs0

\* a recursive collection that failed after it had collected a file
C9_Witness ==
    /\ cd.pc = "done"
    /\ cd.recursive
    /\ cd.err # ""
    /\ cd.avifFiles # <<>>
    /\ cd.inputDir \in DOMAIN cd.fs0

(***************************************************************************)
(* C10: non-recursive collection returns exactly the immediate children of *)
(* the root that are not directories, whose name does not start with '.'   *)
(* and whose extension is ".avif" in any letter case, each once.           *)
(***************************************************************************)
EndsWithAvif(name) ==
    LET n == Len(name)
    IN  /\ n >= 5
        /\ Char(name, n - 4) = "."
        /\ Char(name, n - 3) \in {"a", "A"}
        /\ Char(name, n - 2) \in {"v", "V"}
        /\ Char(name, n - 1) \in {"i", "I"}
        /\ Char(name, n) \in {"f", "F"}

Candidates(fsys, dir) ==
    {dir \o <<name>> : name \in
        {n \in ChildNames(fsys, dir) :
            /\ ~fsys[dir \o <<n>>].isDir
            /\ Char(n, 1) # "."
            /\ EndsWithAvif(n)}}

C10_NonRecursive ==
    cd.pc # "idle" /\ ~cd.recursive /\ cd.err = "" =>
      /\ Files = Candidates(cd.fs0, cd.inputDir)
      /\ Cardinality(Files) = Len(cd.avifFiles)

\* a non-recursive collection that returned a file and left out a hidden
\* entry, a directory, another extension or the content of a subdirectory
C10_Witness ==
    /\ cd.pc # "idle"
    /\ ~cd.recursive
    /\ cd.err = ""
    /\ cd.avifFiles # <<>>
    /\ \E p \in DOMAIN cd.fs0 :
         /\ IsUnder(cd.inputDir, p)
         /\ p # cd.inputDir
         /\ p \notin Files
         /\ \/ Len(p) > Len(cd.inputDir) + 1
            \/ Char(Base(p), 1) = "."

(***************************************************************************)
(* C11: recursive collection returns exactly the union, over the root and  *)
(* every directory below it, of the candidates that non-recursive          *)
(* collection returns for that directory, each path once.  Directories     *)
(* whose own name starts with '.' are descended into as well, and no       *)
(* directory is itself a candidate.                                        *)
(***************************************************************************)
DirsUnder(fsys, root) ==
    {d \in DOMAIN fsys : fsys[d].isDir /\ IsUnder(root, d)}

C11_Recursive ==
    cd.pc # "idle" /\ cd.recursive /\ cd.err = "" =>
      /\ Files = UNION {Candidates(cd.fs0, d) : d \in DirsUnder(cd.fs0, cd.inputDir)}
      /\ Cardinality(Files) = Len(cd.avifFiles)
      /\ \A p \in Files : ~cd.fs0[p].isDir

\* a recursive collection that returned a file of a directory whose name
\* starts with '.', and passed over a directory named like a candidate
C11_Witness ==
    /\ cd.pc # "idle"
    /\ cd.recursive
    /\ cd.err = ""
    /\ \E p \in Files : Len(p) > Len(cd.inputDir) + 1 /\ Char(p[Len(p) - 1], 1) = "."
    /\ \E d \in DirsUnder(cd.fs0, cd.inputDir) : EndsWithAvif(Base(d)) /\ d \notin Files

(***************************************************************************)
(* C12: the destination of a conversion is the destination directory       *)
(* followed by one name, the source's file name with its extension (the    *)
(* part from the last dot on) replaced by ".png" and everything before it  *)
(* kept verbatim; nothing of the source's directory path is in it.  It is  *)
(* the only path a call of AVIFToPNG creates a file at or writes to.       *)
(***************************************************************************)
NoDot(s) == \A k \in 1..Len(s) : Char(s, k) # "."

\* name is stem followed by an extension, which is empty when name has no dot
SplitsAt(name, k) ==
    LET ext == SubSeq(name, k + 1, Len(name))
    IN  \/ k = Len(name) /\ NoDot(name)
        \/ k < Len(name) /\ Char(ext, 1) = "." /\ NoDot(SubSeq(ext, 2, Len(ext)))

Flattened(inputPath, outputDir, outputPath) ==
    LET name == inputPath[Len(inputPath)]
    IN  /\ Len(outputPath) = Len(outputDir) + 1
        /\ SubSeq(outputPath, 1, Len(outputDir)) = outputDir
        /\ \E k \in 0..Len(name) :
             /\ SplitsAt(name, k)
             /\ outputPath[Len(outputPath)] = SubSeq(name, 1, k) \o ".png"

WrittenSince(before, now) ==
    {q \in DOMAIN now : ~now[q].isDir /\ (q \notin DOMAIN before \/ now[q] # before[q])}

C12_Flattening ==
    LET f == av[Main]
    IN  /\ f.pc \in {"create", "encode"} \/ (f.pc = "ret" /\ f.outputPath # <<>>) =>
             Flattened(f.inputPath, f.outputDir, f.outputPath)
        /\ f.pc # "idle" => WrittenSince(f.fs0, fs) \subseteq {f.outputPath}

\* a batch that converted a file of a subdirectory and a file whose name has
\* a space, an inner dot and an upper-case extension, with both outputs
\* directly in the destination directory
C12_Witness ==
    /\ Returned
    /\ \E j, k \in 1..Len(cd.log) :
         /\ cd.log[j].err = "" /\ cd.log[k].err = ""
         /\ Len(cd.log[j].inputPath) > Len(cd.inputDir) + 1
         /\ Base(cd.log[k].inputPath) = "b c.d.AVIF"
         /\ cd.outputDir \o <<"a.png">> \in WrittenSince(cd.fs0, fs)
         /\ cd.outputDir \o <<"b c.d.png">> \in WrittenSince(cd.fs0, fs)

(***************************************************************************)
(* C13: directory creation.  As stated: a call of AVIFToPNG with a valid   *)
(* source and a destination directory that does not exist creates the      *)
(* directory and all its missing parents before it creates the output      *)
(* file, and succeeds; a destination directory that exists already is not  *)
(* an error of the creation step.                                          *)
(***************************************************************************)
Prefixes(path) == {SubSeq(path, 1, n) : n \in 0..Len(path)}

\* the output file is created only in a directory that exists with all its
\* parents, and nothing is written before the directory step
DirectoryFirst(f) ==
    /\ f.pc \in {"read", "mkdir"} => WrittenSince(f.fs0, fs) = {}
    /\ f.pc \in {"stat", "create", "encode"} =>
         \A d \in Prefixes(f.outputDir) : d \in DOMAIN fs /\ fs[d].isDir
    /\ WrittenSince(f.fs0, fs) # {} =>
         \A d \in Prefixes(f.outputDir) : d \in DOMAIN fs /\ fs[d].isDir

ExistingDirectoryAccepted(f) ==
    f.pc = "ret" /\ f.outputDir \in DOMAIN f.fs0 /\ f.fs0[f.outputDir].isDir =>
      f.err # "failed to create output directory"

MissingDirectoryCall(f) ==
    /\ f.pc = "ret"
    /\ ValidSource(f.fs0, f.inputPath)
    /\ f.outputDir \notin DOMAIN f.fs0

SuccessDestinations ==
    {DestinationOf(cd.log[k].inputPath, cd.outputDir) :
        k \in {j \in 1..Len(cd.log) : cd.log[j].err = ""}}

C14_OutputsMatchSuccesses ==
    LET f == av[Main]
    IN  /\ Returned =>
             /\ WrittenSince(cd.fs0, fs) = SuccessDestinations
             /\ Cardinality(WrittenSince(cd.fs0, fs)) = cd.result.Successful
        /\ f.pc = "ret" /\ f.err # "" => WrittenSince(f.fs0, fs) = {}

(***************************************************************************)
(* C19: sequential processing.  ConvertDirectory converts the collected    *)
(* files one at a time in the order of the collection: the conversion in   *)
(* progress is that of file i, the outcomes of the files 1..i-1 and of no  *)
(* other are recorded, a conversion starts only when none is in progress,  *)
(* and the paths of Errors follow the order of the collection.             *)
(***************************************************************************)
IndexOf(path) == CHOOSE k \in 1..Len(cd.avifFiles) : cd.avifFiles[k] = path

C19_State ==
    InBatch =>
      /\ cd.pc = "wait" =>
           /\ av[Main].pc # "idle" /\ av[Main].caller = "batch"
           /\ av[Main].inputPath = cd.avifFiles[cd.i]
      /\ cd.pc = "loop" => av[Main].pc = "idle"
      /\ cd.pc \in {"loop", "wait"} => Len(cd.log) = cd.i - 1 /\ Processed = cd.i - 1
      /\ \A k \in 1..Len(cd.log) : cd.log[k].inputPath = cd.avifFiles[k]
      /\ \A j \in 1..Len(cd.result.Errors) :
           /\ \E k \in 1..Len(cd.log) : cd.avifFiles[k] = cd.result.Errors[j].FilePath
           /\ j > 1 => IndexOf(cd.result.Errors[j - 1].FilePath)
                         < IndexOf(cd.result.Errors[j].FilePath)

\* a conversion starts from a state where the previous outcome is recorded,
\* and the filesystem changes only while a conversion is in progress
C19_Step ==
    /\ av[Main].pc = "idle" /\ av'[Main].pc # "idle" /\ av'[Main].caller = "batch" =>
         /\ Len(cd.log) = cd.i - 1
         /\ av'[Main].inputPath = cd.avifFiles[Len(cd.log) + 1]
    /\ InBatch /\ fs' # fs => cd.pc = "wait" /\ cd'.pc = "wait"

C19_Sequential == [](C19_State) /\ [][C19_Step]_vars

\* the second file is being written after the failure of the first was
\* recorded
C19_Witness ==
    /\ cd.pc = "wait"
    /\ cd.i = 2
    /\ av[Main].pc = "encode"
    /\ Len(cd.result.Errors) = 1
    /\ cd.result.Errors[1].FilePath = cd.avifFiles[1]

(***************************************************************************)
(* C20: the destination directory.  As stated: ConvertDirectory creates    *)
(* the destination directory for every conversion it attempts, whatever    *)
(* the outcome, so that the directory exists after every non-empty batch,  *)
(* also when every file's outcome is Failed.                               *)
(***************************************************************************)
InputSideErrors == {"failed to open input file", "failed to decode AVIF image"}

C20_AsStated ==
    /\ Returned /\ cd.result.TotalFiles > 0 =>
         cd.outputDir \in DOMAIN fs /\ fs[cd.outputDir].isDir
    /\ av[Main].pc = "ret" /\ av[Main].caller = "batch" =>
         av[Main].outputDir \in DOMAIN fs /\ fs[av[Main].outputDir].isDir

\* C20 as amended: the directory is created by every conversion whose
\* source was opened and decoded, whatever its outcome then, unless
\* os.MkdirAll fails; a conversion that fails to open or decode its source
\* leaves the filesystem as it was, so that a batch whose files all fail
\* that way leaves the directory missing if it was missing.
C20_DirectoryOnDemand ==
    LET f == av[Main]
    IN  /\ f.pc = "ret" /\ f.caller = "batch" =>
             /\ f.err \in InputSideErrors => fs = f.fs0
             /\ f.err \notin InputSideErrors \cup {"failed to create output directory"} =>
                  f.outputDir \in DOMAIN fs /\ fs[f.outputDir].isDir
        /\ Returned =>
             /\ (\E k \in 1..Len(cd.log) :
                   cd.log[k].err \notin
                     InputSideErrors \cup {"failed to create output directory"})
                => cd.outputDir \in DOMAIN fs /\ fs[cd.outputDir].isDir
             /\ (\A k \in 1..Len(cd.log) : cd.log[k].err \in InputSideErrors)
                => fs = cd.fs0

\* a batch whose files are all Failed and which created the directory: a
\* source was decoded and the failure came after the directory step
C20_Witness ==
    /\ Returned
    /\ cd.result.TotalFiles > 0
    /\ cd.result.Failed = cd.result.TotalFiles
    /\ cd.outputDir \notin DOMAIN cd.fs0
    /\ cd.outputDir \in DOMAIN fs
    /\ fs[cd.outputDir].isDir

(***************************************************************************)
(* C15: the error of a directory run.  When Run is given a directory and   *)
(* the collection succeeds, Run returns an error if and only if the        *)
(* outcome of at least one file is Failed; a batch of successes and skips  *)
(* only, an all-skipped batch and an empty batch return nil.               *)
(***************************************************************************)
RunDone == run.pc = "done"

SomeFailed == \E k \in 1..Len(cd.log) : cd.log[k].err \notin {"", ErrFileExists}

C15_DirectoryRunError ==
    RunDone /\ run.isDir /\ ~cd.nilResult =>
      /\ run.err # "" <=> SomeFailed
      /\ cd.result.Failed = 0 => run.err = ""
      /\ cd.result.TotalFiles = 0 => run.err = ""

\* a directory run that skipped a file, failed on another and returned an
\* error
C15_Witness ==
    /\ RunDone
    /\ run.isDir
    /\ ~cd.nilResult
    /\ cd.result.Skipped >= 1
    /\ cd.result.Failed >= 1
    /\ run.err # ""

(***************************************************************************)
(* C16: overwrite protection of a single-file run.  When Run is given one  *)
(* valid .avif file whose destination PNG exists, the PNG is left as it is *)
(* and the run is a skip, not an error: Run returns nil, as a directory    *)
(* run does for a skipped file.                                            *)
(***************************************************************************)
C16_SingleFileSkip ==
    LET dest == DestinationOf(run.config.InputPath, run.config.OutputDir)
    IN  /\ RunDone
        /\ ~run.isDir
        /\ ValidSource(run.fs0, run.config.InputPath)
        /\ EndsWithAvif(Base(run.config.InputPath))
        /\ dest \in DOMAIN run.fs0
        => /\ dest \in DOMAIN fs
           /\ fs[dest] = run.fs0[dest]
           /\ run.err = ""

(***************************************************************************)
(* C17: validation and dispatch.  Run returns an error, starts no          *)
(* conversion and changes nothing on the filesystem when the input path    *)
(* does not exist or is a regular file whose extension is not ".avif" in   *)
(* any letter case; a directory always goes to the directory conversion    *)
(* with the given Recursive flag, and a regular .avif/.AVIF file to the    *)
(* single-file conversion, whatever the Recursive flag.                    *)
(***************************************************************************)
RunInput == run.config.InputPath

C17_Dispatch ==
    run.pc # "idle" =>
      /\ \/ RunInput \notin DOMAIN run.fs0
         \/ ~run.fs0[RunInput].isDir /\ ~EndsWithAvif(Base(RunInput))
         => /\ RunDone /\ run.err # ""
            /\ cd.pc = "idle" /\ av[Main].pc = "idle"
            /\ fs = run.fs0
      /\ RunInput \in DOMAIN run.fs0 /\ run.fs0[RunInput].isDir =>
            /\ cd.pc # "idle"
            /\ cd.inputDir = RunInput
            /\ cd.outputDir = run.config.OutputDir
            /\ cd.recursive = run.config.Recursive
            /\ av[Main].pc # "idle" => av[Main].caller = "batch"
      /\ /\ RunInput \in DOMAIN run.fs0
         /\ ~run.fs0[RunInput].isDir
         /\ EndsWithAvif(Base(RunInput))
         => /\ cd.pc = "idle"
            /\ av[Main].pc # "idle"
            /\ av[Main].caller = "api"
            /\ av[Main].inputPath = RunInput
            /\ av[Main].outputDir = run.config.OutputDir

\* a run with the Recursive flag on a file with an upper-case extension,
\* which was converted
C17_Witness ==
    /\ RunDone
    /\ run.config.Recursive
    /\ Base(RunInput) = "b c.d.AVIF"
    /\ run.err = ""
    /\ DestinationOf(RunInput, run.config.OutputDir) \in WrittenSince(run.fs0, fs)

(***************************************************************************)
(* C18: atomic overwrite protection.  The existence check and the creation *)
(* of the destination behave as one step: of two invocations of AVIFToPNG  *)
(* with the same destination that run concurrently, at most one creates or *)
(* writes the destination, and once one has created it the other is not   *)
(* past its check and about to create it too.                              *)
(***************************************************************************)
\* the call f has opened its destination for writing
HasCreated(f) ==
    \/ f.pc = "encode"
    \/ f.pc = "ret" /\ f.err \in {"", "failed to encode PNG"}

SameDestination(f, g) ==
    /\ f.pc # "idle"
    /\ g.pc # "idle"
    /\ DestinationOf(f.inputPath, f.outputDir) = DestinationOf(g.inputPath, g.outputDir)

C18_AtomicCreate ==
    \A p, q \in Procs :
        p # q /\ SameDestination(av[p], av[q]) =>
          /\ ~(HasCreated(av[p]) /\ HasCreated(av[q]))
          /\ HasCreated(av[p]) => av[q].pc # "create"

(***************************************************************************)
(* C21: classification precedence.  AVIFToPNG opens and decodes the source *)
(* before it looks at the destination: a call whose source cannot be       *)
(* opened or decoded returns an error that is not ErrFileExists, also when *)
(* its destination exists, and ConvertDirectory counts it as Failed with   *)
(* an entry in Errors; a call returns ErrFileExists, and a file is counted *)
(* as Skipped, only when the source was decoded and the destination was    *)
(* found to exist.                                                         *)
(***************************************************************************)
SkippedEntries == {k \in 1..Len(cd.log) : cd.log[k].err = ErrFileExists}

UndecodableEntries ==
    {k \in 1..Len(cd.log) : ~ValidSource(cd.fs0, cd.log[k].inputPath)}

C21_Precedence ==
    LET f == av[Main]
    IN  /\ f.pc \in {"mkdir", "stat", "create", "encode"} =>
             ValidSource(f.fs0, f.inputPath) /\ f.err = ""
        /\ f.pc = "ret" /\ ~ValidSource(f.fs0, f.inputPath) =>
             f.err \in InputSideErrors /\ f.outputPath = <<>>
        /\ f.pc = "ret" /\ f.err = ErrFileExists =>
             /\ ValidSource(f.fs0, f.inputPath)
             /\ DestinationOf(f.inputPath, f.outputDir) \in DOMAIN f.fs0
        /\ InBatch =>
             /\ cd.result.Skipped = Cardinality(SkippedEntries)
             /\ \A k \in SkippedEntries :
                  /\ ValidSource(cd.fs0, cd.log[k].inputPath)
                  /\ DestinationOf(cd.log[k].inputPath, cd.outputDir) \in DOMAIN fs
             /\ \A k \in UndecodableEntries :
                  /\ cd.log[k].err \in InputSideErrors
                  /\ \E j \in 1..Len(cd.result.Errors) :
                       /\ cd.result.Errors[j].FilePath = cd.log[k].inputPath
                       /\ cd.result.Errors[j].Error = cd.log[k].err
             /\ cd.result.Failed >= Cardinality(UndecodableEntries)

\* a batch that counted as Failed an undecodable source whose destination
\* existed before the batch
C21_Witness ==
    /\ Returned
    /\ \E k \in UndecodableEntries :
         /\ DestinationOf(cd.log[k].inputPath, cd.outputDir) \in DOMAIN cd.fs0
         /\ cd.log[k].err = "failed to decode AVIF image"
    /\ cd.result.Failed >= 1
    /\ cd.result.Skipped = 0

(***************************************************************************)
(* C22: sources are never modified.  No step of an AVIFToPNG or            *)
(* ConvertDirectory call removes a path, changes a file that existed when  *)
(* the call began, or creates or changes a file whose name ends in .avif;  *)
(* the only file a step writes is outputDir/<base>.png of the conversion   *)
(* in progress.  This holds with the output directory equal to the input   *)
(* directory or inside it, and no file written there is among the files a  *)
(* batch collects, in the same batch or in the next.                       *)
(***************************************************************************)
EndsWithPng(name) ==
    LET n == Len(name)
    IN  n >= 4 /\ SubSeq(name, n - 3, n) = ".png"

ChangedFiles(before, now) ==
    {p \in DOMAIN before \cup DOMAIN now :
        \/ p \notin DOMAIN before /\ ~now[p].isDir
        \/ p \notin DOMAIN now
        \/ p \in DOMAIN before /\ p \in DOMAIN now /\ now[p] # before[p]}

C22_WriteStep ==
    \A p \in ChangedFiles(fs, fs') :
        LET f == av[Main]
        IN  /\ p \in DOMAIN fs'
            /\ ~fs'[p].isDir
            /\ p \notin DOMAIN f.fs0
            /\ Flattened(f.inputPath, f.outputDir, p)
            /\ EndsWithPng(Base(p))
            /\ ~EndsWithAvif(Base(p))
            /\ p # f.inputPath
            /\ p \notin Files

C22_State ==
    /\ cd.pc # "idle" =>
         /\ \A p \in Files :
              /\ EndsWithAvif(Base(p))
              /\ p \in DOMAIN cd.fs0 => (p \in DOMAIN fs /\ fs[p] = cd.fs0[p])
         /\ Files \cap WrittenSince(cd.fs0, fs) = {}
         /\ prev.pc = "done" => Files \cap WrittenSince(prev.fs0, fs) = {}
    /\ \A p \in Procs : av[p].pc # "idle" => Untouched(av[p].fs0, fs)

C22_SourcesUntouched == [](C22_State) /\ [][C22_WriteStep]_vars

\* the second of two recursive batches over an input directory that holds
\* the outputs of the first: it collected the same sources and none of the
\* outputs
C22_Witness ==
    /\ Returned
    /\ cd.recursive
    /\ prev.pc = "done"
    /\ prev.recursive
    /\ prev.result.Successful >= 1
    /\ \E p \in WrittenSince(prev.fs0, cd.fs0) : IsUnder(cd.inputDir, p)
    /\ cd.avifFiles = prev.avifFiles
    /\ cd.result.Skipped >= 1

====
